---- MODULE Spec2Model ----
(***************************************************************************)
(* Order session state (SessionState.order_items) of the burger-bot and    *)
(* the five tool handlers that read and change it.  Prices are integer     *)
(* cents.  A handler runs from its call to its first await in one step;    *)
(* each await (the order-submission call, the result callback) is a        *)
(* separate step whose outcome (returns / raises) is chosen by the         *)
(* environment.                                                            *)
(***************************************************************************)
EXTENDS Integers, Sequences, FiniteSets, TLC

VARIABLES order_items, calls, last, submissions, session

vars == <<order_items, calls, last, submissions, session>>

(* ------------------------------ bounds --------------------------------- *)

\* largest quantity a cart line may reach in the model
MaxQuantity == 3

\* largest number of order submissions sent to the endpoint in one run
MaxSubmissions == 2

\* number of call slots (handler invocations that can be in flight)
MaxCalls == 2

Slots == 1..MaxCalls

(* --------------------------- python values ----------------------------- *)

\* an optional integer argument: None, or a one-element tuple with the value
None == << >>

Some(v) == <<v>>

\* arguments.get("item_id") of a call that passes no item_id (falsy)
NoItemId == ""

(* ------------------------------ catalog -------------------------------- *)

\* services/mock_data.MENU_ITEMS (ids and prices of the spec's example)
MENU_ITEMS ==
  << [id |-> "burger-001", name |-> "Classic Burger", price |-> 599],
     [id |-> "side-001", name |-> "Fries", price |-> 249] >>

\* BurgerAPIClient.get_catalog: one MenuItem per entry of MENU_ITEMS
catalog == MENU_ITEMS

\* an id the catalog does not have
UnknownItemId == "pizza-999"

CatalogIds == {catalog[i].id : i \in DOMAIN catalog}

\* the item_id arguments a call may carry
ItemIdArgs == CatalogIds \cup {UnknownItemId, NoItemId}

\* the quantity arguments a call may carry (None: argument omitted)
QuantityArgs == {None} \cup {Some(q) : q \in (0 - 1)..(MaxQuantity + 1)}

\* a "quantity" argument that is not an integer, such as the string "two"
NotAnInteger == <<"str", "two">>

\* isinstance(quantity, int), for a quantity that is not None
IsInteger(quantity) == Len(quantity) = 1

\* the values params.arguments may hold under "quantity": the caller does
\* not check them against the schema
QuantityValues == QuantityArgs \cup {NotAnInteger}

\* a faulty lookup that falls back to the first menu item
FindMenuItem_defaults_to_first(item_id) ==
  IF \E i \in DOMAIN catalog : catalog[i].id = item_id
  THEN CHOOSE i \in DOMAIN catalog : catalog[i].id = item_id
  ELSE 1

\* next((item for item in self.catalog if item.id == item_id), None):
\* index of the first match, 0 for None
FindMenuItem(item_id) ==
  IF \E i \in DOMAIN catalog : catalog[i].id = item_id
  THEN CHOOSE i \in DOMAIN catalog :
         /\ catalog[i].id = item_id
         /\ \A j \in 1..(i - 1) : catalog[j].id # item_id
  ELSE 0

\* ", ".join([item.id for item in self.catalog[:5]])
AvailableIds ==
  [i \in 1..(IF Len(catalog) < 5 THEN Len(catalog) ELSE 5) |-> catalog[i].id]

(* ---------------------------- SessionState ----------------------------- *)

\* OrderItem(item_id=..., quantity=..., name=..., price=...)
OrderItem(item_id, quantity, name, price) ==
  [item_id |-> item_id, quantity |-> quantity, name |-> name, price |-> price]

\* next((i for i in self.order_items if i.item_id == item_id), None):
\* index of the first line with that id, 0 for None
IndexOf(items, item_id) ==
  IF \E i \in DOMAIN items : items[i].item_id = item_id
  THEN CHOOSE i \in DOMAIN items :
         /\ items[i].item_id = item_id
         /\ \A j \in 1..(i - 1) : items[j].item_id # item_id
  ELSE 0

\* list.remove of the element at position k
RemoveAt(items, k) ==
  [i \in 1..(Len(items) - 1) |-> IF i < k THEN items[i] ELSE items[i + 1]]

\* SessionState.clear_order
clear_order(items) == << >>

\* a faulty add_item that appends a line even when the id has one
add_item_always_appends(items, item) == Append(items, item)

\* a faulty add_item that overwrites the quantity instead of adding to it
add_item_overwrites(items, item) ==
  LET k == IndexOf(items, item.item_id)
  IN  IF k # 0
      THEN [items EXCEPT ![k].quantity = item.quantity]
      ELSE Append(items, item)

\* a faulty add_item that puts the new item, with the summed quantity, in
\* the place of the line it found
add_item_replaces_line(items, item) ==
  LET k == IndexOf(items, item.item_id)
  IN  IF k # 0
      THEN [items EXCEPT ![k] = [item EXCEPT !.quantity =
                                    items[k].quantity + item.quantity]]
      ELSE Append(items, item)

\* a faulty add_item that is suspended between its lookup and its change:
\* the lookup saw the cart as a call now suspended saw it
add_item_suspends_after_lookup(items, item) ==
  LET suspended == {s \in Slots : calls[s].pc # "idle"}
      seen == IF suspended = {}
              THEN items
              ELSE calls[CHOOSE s \in suspended : TRUE].pre
      k == IndexOf(seen, item.item_id)
  IN  IF k # 0 /\ k <= Len(items)
      THEN [items EXCEPT ![k].quantity = @ + item.quantity]
      ELSE Append(items, item)

\* SessionState.add_item
add_item(items, item) ==
  LET k == IndexOf(items, item.item_id)
  IN  IF k # 0
      THEN [items EXCEPT ![k].quantity = @ + item.quantity]
      ELSE Append(items, item)

\* a faulty remove_item that keeps the line when quantity == current
remove_item_keeps_zero(items, item_id, quantity) ==
  LET k == IndexOf(items, item_id)
  IN  IF k = 0
      THEN [items |-> items, found |-> FALSE]
      ELSE IF quantity = None \/ quantity[1] > items[k].quantity
           THEN [items |-> RemoveAt(items, k), found |-> TRUE]
           ELSE [items |-> [items EXCEPT ![k].quantity = @ - quantity[1]],
                 found |-> TRUE]

\* a faulty remove_item that deletes the line whatever the quantity
remove_item_always_deletes(items, item_id, quantity) ==
  LET k == IndexOf(items, item_id)
  IN  IF k = 0
      THEN [items |-> items, found |-> FALSE]
      ELSE [items |-> RemoveAt(items, k), found |-> TRUE]

\* a faulty remove_item that fills the gap of a deleted line with the last
\* line instead of closing it
remove_item_moves_last_line(items, item_id, quantity) ==
  LET k == IndexOf(items, item_id)
      n == Len(items)
  IN  IF k = 0
      THEN [items |-> items, found |-> FALSE]
      ELSE IF quantity = None \/ quantity[1] >= items[k].quantity
           THEN [items |-> [i \in 1..(n - 1) |->
                              IF i = k THEN items[n] ELSE items[i]],
                 found |-> TRUE]
           ELSE [items |-> [items EXCEPT ![k].quantity = @ - quantity[1]],
                 found |-> TRUE]

\* SessionState.remove_item: the new list and the returned bool
remove_item(items, item_id, quantity) ==
  LET k == IndexOf(items, item_id)
  IN  IF k = 0
      THEN [items |-> items, found |-> FALSE]
      ELSE IF quantity = None \/ quantity[1] >= items[k].quantity
           THEN [items |-> RemoveAt(items, k), found |-> TRUE]
           ELSE [items |-> [items EXCEPT ![k].quantity = @ - quantity[1]],
                 found |-> TRUE]

RECURSIVE SumFrom(_, _)
\* sum(...) over items[k..]: the generator is consumed left to right
SumFrom(items, k) ==
  IF k > Len(items)
  THEN 0
  ELSE items[k].price * items[k].quantity + SumFrom(items, k + 1)

\* a faulty calculate_total that adds up the prices, not price * quantity
calculate_total_ignores_quantity(items) ==
  SumFrom([i \in DOMAIN items |-> [items[i] EXCEPT !.quantity = 1]], 1)

\* SessionState.calculate_total
calculate_total(items) == SumFrom(items, 1)

\* f"${total:.2f}" of an amount in cents: dollars, then two digits of cents
Money(amount) == [dollars |-> amount \div 100, cents |-> amount % 100]

(* ------------------------- result strings ------------------------------ *)
(* A result string is a record: its kind is the fixed text, the other      *)
(* fields are the values formatted into it.                                *)

\* no string (nothing built yet / nothing returned)
NoResponse == [kind |-> "none"]

\* "Error: item_id is required"
ErrItemIdRequired == [kind |-> "Error: item_id is required"]

\* "Error: quantity must be at least 1"
ErrQuantityAtLeast1 == [kind |-> "Error: quantity must be at least 1"]

\* f"Error: Item '{item_id}' not found in menu. Available items include: ..."
ErrNotInMenu(item_id) ==
  [kind |-> "Error: Item not found in menu", item_id |-> item_id,
   available |-> AvailableIds]

\* f"Added {quantity} {menu_item.name}(s) to your order. Current order total: ..."
Added(quantity, name, total) ==
  [kind |-> "Added to your order", quantity |-> quantity, name |-> name,
   total |-> Money(total)]

\* f"Error: Item '{item_id}' not found in your order"
ErrNotInOrder(item_id) ==
  [kind |-> "Error: Item not found in your order", item_id |-> item_id]

\* "Error: quantity to remove must be at least 1"
ErrRemoveQuantity == [kind |-> "Error: quantity to remove must be at least 1"]

\* f"Removed all {item_name} from your order. Your order is now empty."
RemovedAllNowEmpty(name) ==
  [kind |-> "Removed all, order is now empty", name |-> name]

\* f"Removed all {item_name} from your order. Current order total: ..."
RemovedAll(name, total) ==
  [kind |-> "Removed all", name |-> name, total |-> Money(total)]

\* f"Removed {quantity} {item_name}(s) from your order. Current order total: ..."
Removed(quantity, name, total) ==
  [kind |-> "Removed", quantity |-> quantity, name |-> name,
   total |-> Money(total)]

\* "Your order is currently empty."
OrderCurrentlyEmpty == [kind |-> "Your order is currently empty."]

\* "Here's your current order:" + one line per item + "Total: ..."
CurrentOrder(items, total) ==
  [kind |-> "Here's your current order",
   lines |-> [i \in DOMAIN items |->
                [quantity |-> items[i].quantity, name |-> items[i].name,
                 item_total |-> Money(items[i].price * items[i].quantity)]],
   total |-> Money(total)]

\* "Your order is empty. Please add some items first."
OrderEmptyAddFirst == [kind |-> "Your order is empty. Please add some items first."]

\* "Here's the breakdown of your order:" + one line per item + "Total: ..."
Breakdown(items, total) ==
  [kind |-> "Here's the breakdown of your order",
   lines |-> [i \in DOMAIN items |->
                [quantity |-> items[i].quantity, name |-> items[i].name,
                 price |-> Money(items[i].price),
                 item_total |-> Money(items[i].price * items[i].quantity)]],
   total |-> Money(total)]

\* "Error: Your order is empty. Please add some items before placing your order."
ErrOrderEmpty == [kind |-> "Error: Your order is empty."]

\* f"Order confirmed! Your order ID is {order_id}. Total: ${total:.2f}. ..."
OrderConfirmed(order_response) ==
  [kind |-> "Order confirmed", order_id |-> order_response.order_id,
   total |-> Money(order_response.total)]

\* "Sorry, there was an error processing your order. Your items are still
\* in your cart. Please try again in a moment."
Apology == [kind |-> "Sorry, your items are still in your cart"]

(* ------------------------------ calls ---------------------------------- *)

\* a call slot with no handler running in it
IdleCall ==
  [pc |-> "idle", tool |-> "none", item_id |-> NoItemId, quantity |-> None,
   pre |-> << >>, response |-> NoResponse, pushed |-> << >>,
   api |-> "none", api_items |-> << >>, order_response |-> NoResponse,
   submitted |-> 0, order_item |-> None]

\* a handler invoked with params.arguments on the cart as it is now
NewCall(tool, item_id, quantity) ==
  [IdleCall EXCEPT !.pc = "running", !.tool = tool, !.item_id = item_id,
                   !.quantity = quantity, !.pre = order_items]

\* the value of last in a run that keeps no record of the finished calls
NoHistory ==
  [call |-> IdleCall, post |-> << >>, outcome |-> "unrecorded",
   result |-> NoResponse]

\* the handler in slot s returns result, the cart being items
Return(s, c, result, items) ==
  /\ calls' = [calls EXCEPT ![s] = IdleCall]
  /\ last' = IF last = NoHistory
             THEN last
             ELSE [call |-> c, post |-> items, outcome |-> "returned",
                   result |-> result]
  /\ UNCHANGED session

\* an exception leaves the handler in slot s, the cart being items
Raise(s, c, items) ==
  /\ calls' = [calls EXCEPT ![s] = IdleCall]
  /\ last' = IF last = NoHistory
             THEN last
             ELSE [call |-> c, post |-> items, outcome |-> "raised",
                   result |-> NoResponse]
  /\ UNCHANGED session

\* the handler in slot s suspends at an await
Await(s, c) ==
  /\ calls' = [calls EXCEPT ![s] = c]
  /\ UNCHANGED <<last, session>>

\* sequential dispatch: a call starts only when no other call is in flight
Sequential == \A t \in Slots : calls[t].pc = "idle"

\* a new call takes the first idle slot
FirstIdle(s) ==
  /\ calls[s].pc = "idle"
  /\ \A t \in 1..(s - 1) : calls[t].pc # "idle"

\* the names under which run_bot registers the handlers
ToolNames ==
  {"add_item_to_order", "remove_item_from_order", "read_current_order",
   "calculate_order_total", "create_order"}

\* run_bot has been entered: no catalog, no SessionState, nothing registered
Init ==
  /\ order_items = << >>
  /\ calls = [s \in Slots |-> IdleCall]
  /\ last = [call |-> IdleCall, post |-> << >>, outcome |-> "none",
             result |-> NoResponse]
  /\ submissions = 0
  /\ session = [phase |-> "starting", catalog_loaded |-> FALSE,
                has_cart |-> FALSE, tools |-> {}]

(* --------------------------- session startup --------------------------- *)

\* a faulty run_bot that logs the failed fetch and carries on
get_catalog_raises_and_is_swallowed ==
  /\ session.phase = "starting"
  /\ session' = [phase |-> "running", catalog_loaded |-> FALSE,
                 has_cart |-> TRUE, tools |-> ToolNames]
  /\ UNCHANGED <<order_items, calls, last, submissions>>

\* run_bot: await api_client.get_catalog() raises; the except block logs and
\* re-raises, so run_bot ends before SessionState() and register_function
get_catalog_raises ==
  /\ session.phase = "starting"
  /\ session' = [phase |-> "aborted", catalog_loaded |-> FALSE,
                 has_cart |-> FALSE, tools |-> {}]
  /\ UNCHANGED <<order_items, calls, last, submissions>>

\* run_bot: await api_client.get_catalog() returns; run_bot creates the
\* SessionState and registers the five handlers
get_catalog_returns ==
  /\ session.phase = "starting"
  /\ session' = [phase |-> "running", catalog_loaded |-> TRUE,
                 has_cart |-> TRUE, tools |-> ToolNames]
  /\ order_items' = << >>
  /\ UNCHANGED <<calls, last, submissions>>

(* --------------------------- tool handlers ----------------------------- *)

\* AddItemToOrderFunction._handle_add_item up to its await (or early return)
handle_add_item(s, item_id, quantity_arg) ==
  LET c == NewCall("add_item_to_order", item_id, quantity_arg)
      quantity == IF quantity_arg = None THEN 1 ELSE quantity_arg[1]
      m == FindMenuItem(item_id)
  IN  IF item_id = NoItemId
      THEN /\ Return(s, c, ErrItemIdRequired, order_items)
           /\ UNCHANGED <<order_items, submissions>>
      ELSE IF quantity_arg # None /\ ~IsInteger(quantity_arg)
      THEN /\ Raise(s, c, order_items)
           /\ UNCHANGED <<order_items, submissions>>
      ELSE IF quantity < 1
      THEN /\ Return(s, c, ErrQuantityAtLeast1, order_items)
           /\ UNCHANGED <<order_items, submissions>>
      ELSE IF m = 0
      THEN /\ Return(s, c, ErrNotInMenu(item_id), order_items)
           /\ UNCHANGED <<order_items, submissions>>
      ELSE LET k == IndexOf(order_items, item_id)
               order_item == OrderItem(item_id, quantity, catalog[m].name,
                                       catalog[m].price)
               items == add_item(order_items, order_item)
               total == calculate_total(items)
           IN  /\ quantity + (IF k = 0 THEN 0 ELSE order_items[k].quantity)
                    <= MaxQuantity
               /\ order_items' = items
               /\ Await(s, [c EXCEPT !.pc = "await_callback",
                                     !.order_item = Some(order_item),
                                     !.response = Added(quantity,
                                                        catalog[m].name, total)])
               /\ UNCHANGED submissions

\* a faulty handler that does not reject a quantity below 1
handle_remove_item_without_quantity_check(s, item_id, quantity) ==
  LET c == NewCall("remove_item_from_order", item_id, quantity)
      k == IndexOf(order_items, item_id)
  IN  IF item_id = NoItemId
      THEN /\ Return(s, c, ErrItemIdRequired, order_items)
           /\ UNCHANGED <<order_items, submissions>>
      ELSE IF k = 0
      THEN /\ Return(s, c, ErrNotInOrder(item_id), order_items)
           /\ UNCHANGED <<order_items, submissions>>
      ELSE IF quantity # None /\ ~IsInteger(quantity)
      THEN /\ Raise(s, c, order_items)
           /\ UNCHANGED <<order_items, submissions>>
      ELSE LET item_name == order_items[k].name
               current_quantity == order_items[k].quantity
               removed == remove_item(order_items, item_id, quantity)
               total == calculate_total(removed.items)
           IN  IF ~removed.found
               THEN /\ Return(s, c, ErrNotInOrder(item_id), order_items)
                    /\ UNCHANGED <<order_items, submissions>>
               ELSE /\ order_items' = removed.items
                    /\ UNCHANGED submissions
                    /\ IF removed.items = << >>
                       THEN Return(s, c, RemovedAllNowEmpty(item_name),
                                   removed.items)
                       ELSE Await(s, [c EXCEPT
                              !.pc = "await_callback",
                              !.response =
                                IF quantity = None
                                   \/ quantity[1] >= current_quantity
                                THEN RemovedAll(item_name, total)
                                ELSE Removed(quantity[1], item_name, total)])

\* RemoveItemFromOrderFunction._handle_remove_item up to its await (or return)
handle_remove_item(s, item_id, quantity) ==
  LET c == NewCall("remove_item_from_order", item_id, quantity)
      k == IndexOf(order_items, item_id)
  IN  IF item_id = NoItemId
      THEN /\ Return(s, c, ErrItemIdRequired, order_items)
           /\ UNCHANGED <<order_items, submissions>>
      ELSE IF k = 0
      THEN /\ Return(s, c, ErrNotInOrder(item_id), order_items)
           /\ UNCHANGED <<order_items, submissions>>
      ELSE IF quantity # None /\ ~IsInteger(quantity)
      THEN /\ Raise(s, c, order_items)
           /\ UNCHANGED <<order_items, submissions>>
      ELSE IF quantity # None /\ quantity[1] < 1
      THEN /\ Return(s, c, ErrRemoveQuantity, order_items)
           /\ UNCHANGED <<order_items, submissions>>
      ELSE LET item_name == order_items[k].name
               current_quantity == order_items[k].quantity
               removed == remove_item(order_items, item_id, quantity)
               total == calculate_total(removed.items)
           IN  IF ~removed.found
               THEN /\ Return(s, c, ErrNotInOrder(item_id), order_items)
                    /\ UNCHANGED <<order_items, submissions>>
               ELSE /\ order_items' = removed.items
                    /\ UNCHANGED submissions
                    /\ IF removed.items = << >>
                       THEN Return(s, c, RemovedAllNowEmpty(item_name),
                                   removed.items)
                       ELSE Await(s, [c EXCEPT
                              !.pc = "await_callback",
                              !.response =
                                IF quantity = None
                                   \/ quantity[1] >= current_quantity
                                THEN RemovedAll(item_name, total)
                                ELSE Removed(quantity[1], item_name, total)])

\* ReadCurrentOrderFunction._handle_read_order up to its await (or return)
handle_read_order(s) ==
  LET c == NewCall("read_current_order", NoItemId, None)
  IN  /\ UNCHANGED <<order_items, submissions>>
      /\ IF order_items = << >>
         THEN Return(s, c, OrderCurrentlyEmpty, order_items)
         ELSE Await(s, [c EXCEPT
                !.pc = "await_callback",
                !.response = CurrentOrder(order_items,
                                          calculate_total(order_items))])

\* a faulty handler that empties the cart once it has built the breakdown
handle_calculate_total_then_clears(s) ==
  LET c == NewCall("calculate_order_total", NoItemId, None)
  IN  /\ UNCHANGED submissions
      /\ IF order_items = << >>
         THEN /\ Return(s, c, OrderEmptyAddFirst, order_items)
              /\ UNCHANGED order_items
         ELSE /\ order_items' = clear_order(order_items)
              /\ Await(s, [c EXCEPT
                     !.pc = "await_callback",
                     !.response = Breakdown(order_items,
                                            calculate_total(order_items))])

\* CalculateOrderTotalFunction._handle_calculate_total up to its await
handle_calculate_total(s) ==
  LET c == NewCall("calculate_order_total", NoItemId, None)
  IN  /\ UNCHANGED <<order_items, submissions>>
      /\ IF order_items = << >>
         THEN Return(s, c, OrderEmptyAddFirst, order_items)
         ELSE Await(s, [c EXCEPT
                !.pc = "await_callback",
                !.response = Breakdown(order_items,
                                       calculate_total(order_items))])

\* a faulty payload that lists the lines last to first
ApiItems_reversed(items) ==
  [i \in DOMAIN items |->
     [item_id |-> items[Len(items) + 1 - i].item_id,
      quantity |-> items[Len(items) + 1 - i].quantity]]

\* api_items = [{"item_id": ..., "quantity": ...} for item in order_items]
ApiItems(items) ==
  [i \in DOMAIN items |->
     [item_id |-> items[i].item_id, quantity |-> items[i].quantity]]

\* a faulty handler that submits the order without looking at the cart
handle_create_order_without_empty_check(s) ==
  LET c == NewCall("create_order", NoItemId, None)
  IN  /\ submissions < MaxSubmissions
      /\ submissions' = submissions + 1
      /\ Await(s, [c EXCEPT !.pc = "await_create_order",
                            !.api_items = ApiItems(order_items),
                            !.submitted = 1])
      /\ UNCHANGED order_items

\* CreateOrderFunction._handle_create_order up to the await of the
\* order-submission call (or the early return on an empty cart)
handle_create_order(s) ==
  LET c == NewCall("create_order", NoItemId, None)
  IN  IF order_items = << >>
      THEN /\ Return(s, c, ErrOrderEmpty, order_items)
           /\ UNCHANGED <<order_items, submissions>>
      ELSE /\ submissions < MaxSubmissions
           /\ submissions' = submissions + 1
           /\ Await(s, [c EXCEPT !.pc = "await_create_order",
                                 !.api_items = ApiItems(order_items),
                                 !.submitted = 1])
           /\ UNCHANGED order_items

(* ----------------------- order-submission endpoint --------------------- *)

\* str(uuid.uuid4())
OrderIds == {"uuid-a", "uuid-b"}

\* menu_dict = {item["id"]: item for item in MENU_ITEMS}: the last entry
\* of an id wins; 0 when the id is not a key
MenuDictIndex(item_id) ==
  IF \E i \in DOMAIN MENU_ITEMS : MENU_ITEMS[i].id = item_id
  THEN CHOOSE i \in DOMAIN MENU_ITEMS :
         /\ MENU_ITEMS[i].id = item_id
         /\ \A j \in (i + 1)..Len(MENU_ITEMS) : MENU_ITEMS[j].id # item_id
  ELSE 0

RECURSIVE ApiTotalFrom(_, _)
\* the loop of BurgerAPIClient.create_order over items[k..]
ApiTotalFrom(items, k) ==
  IF k > Len(items)
  THEN 0
  ELSE (IF MenuDictIndex(items[k].item_id) # 0
        THEN MENU_ITEMS[MenuDictIndex(items[k].item_id)].price
             * items[k].quantity
        ELSE 0)
       + ApiTotalFrom(items, k + 1)

\* a faulty endpoint that prices every line as if its quantity were 1
CreateOrderResponse_ignores_quantity(items, order_id) ==
  [order_id |-> order_id,
   total |-> ApiTotalFrom([i \in DOMAIN items |->
                             [items[i] EXCEPT !.quantity = 1]], 1),
   status |-> "confirmed"]

\* BurgerAPIClient.create_order: the CreateOrderResponse for a payload
\* (total in cents, so round(total, 2) changes nothing)
CreateOrderResponse(items, order_id) ==
  [order_id |-> order_id, total |-> ApiTotalFrom(items, 1),
   status |-> "confirmed"]

\* a faulty handler that keeps the cart after a successful submission
create_order_returns_without_clear(s, order_id) ==
  LET c == calls[s]
      order_response == CreateOrderResponse(c.api_items, order_id)
  IN  /\ c.pc = "await_create_order"
      /\ Await(s, [c EXCEPT !.pc = "await_callback_in_try",
                            !.api = "returned",
                            !.order_response = order_response,
                            !.response = OrderConfirmed(order_response)])
      /\ UNCHANGED <<order_items, submissions>>

\* the awaited create_order returns: the handler clears the cart, builds the
\* confirmation and awaits the result callback inside the try block
create_order_returns(s, order_id) ==
  LET c == calls[s]
      order_response == CreateOrderResponse(c.api_items, order_id)
  IN  /\ c.pc = "await_create_order"
      /\ order_items' = clear_order(order_items)
      /\ Await(s, [c EXCEPT !.pc = "await_callback_in_try",
                            !.api = "returned",
                            !.order_response = order_response,
                            !.response = OrderConfirmed(order_response)])
      /\ UNCHANGED submissions

\* a faulty handler that clears the cart before it knows the outcome
create_order_raises_after_clear(s) ==
  LET c == calls[s]
  IN  /\ c.pc = "await_create_order"
      /\ order_items' = clear_order(order_items)
      /\ Await(s, [c EXCEPT !.pc = "await_callback",
                            !.api = "raised",
                            !.response = Apology])
      /\ UNCHANGED submissions

\* a faulty handler that submits the order again when the submission failed
create_order_raises_and_retries(s) ==
  LET c == calls[s]
  IN  /\ c.pc = "await_create_order"
      /\ submissions < MaxSubmissions
      /\ submissions' = submissions + 1
      /\ Await(s, [c EXCEPT !.submitted = @ + 1])
      /\ UNCHANGED order_items

\* the awaited create_order raises: the except block builds the apology and
\* awaits the result callback; the cart is not touched
create_order_raises(s) ==
  LET c == calls[s]
  IN  /\ c.pc = "await_create_order"
      /\ Await(s, [c EXCEPT !.pc = "await_callback",
                            !.api = "raised",
                            !.response = Apology])
      /\ UNCHANGED <<order_items, submissions>>

(* --------------------------- result callback --------------------------- *)

\* await params.result_callback(response) returns; the handler returns
\* response
result_callback_returns(s) ==
  LET c == calls[s]
      d == [c EXCEPT !.pushed = Append(@, c.response)]
  IN  /\ c.pc \in {"await_callback", "await_callback_in_try"}
      /\ Return(s, d, c.response, order_items)
      /\ UNCHANGED <<order_items, submissions>>

\* await params.result_callback(response) raises outside a try block: the
\* exception leaves the handler
result_callback_raises(s) ==
  LET c == calls[s]
  IN  /\ c.pc = "await_callback"
      /\ Raise(s, c, order_items)
      /\ UNCHANGED <<order_items, submissions>>

\* await params.result_callback(response) raises inside create_order's try
\* block: the except block builds the apology and awaits the callback again
result_callback_raises_in_try(s) ==
  LET c == calls[s]
  IN  /\ c.pc = "await_callback_in_try"
      /\ Await(s, [c EXCEPT !.pc = "await_callback", !.response = Apology])
      /\ UNCHANGED <<order_items, submissions>>

(* --------------------------- specification ----------------------------- *)

\* sequential dispatch: a tool call arrives only while no other call is in
\* flight, and takes the first idle slot
CanDispatch(s) == Sequential /\ FirstIdle(s)

\* llm.register_function(func.name, func.get_handler()) has been done for tool
Registered(tool) == tool \in session.tools

Next ==
  \/ get_catalog_returns
  \/ get_catalog_raises
  \/ \E s \in Slots :
       \/ /\ Registered("add_item_to_order")
          /\ CanDispatch(s)
          /\ \E item_id \in ItemIdArgs, quantity \in QuantityValues :
               handle_add_item(s, item_id, quantity)
       \/ /\ Registered("remove_item_from_order")
          /\ CanDispatch(s)
          /\ \E item_id \in ItemIdArgs, quantity \in QuantityValues :
               handle_remove_item(s, item_id, quantity)
       \/ /\ Registered("read_current_order")
          /\ CanDispatch(s)
          /\ handle_read_order(s)
       \/ /\ Registered("calculate_order_total")
          /\ CanDispatch(s)
          /\ handle_calculate_total(s)
       \/ /\ Registered("create_order")
          /\ CanDispatch(s)
          /\ handle_create_order(s)
       \/ \E order_id \in OrderIds : create_order_returns(s, order_id)
       \/ create_order_raises(s)
       \/ result_callback_returns(s)
       \/ result_callback_raises(s)
       \/ result_callback_raises_in_try(s)

Spec == Init /\ [][Next]_vars

(* ---------------------- concurrent tool calls -------------------------- *)
(* The tool calls of one turn run as tasks of one event loop: a handler    *)
(* runs without interruption from one await to the next, and another       *)
(* handler may run while it is suspended at an await.                      *)

\* concurrent dispatch: a tool call may arrive while others are suspended,
\* and takes the first idle slot
CanDispatchConcurrently(s) == FirstIdle(s)

NextConcurrent ==
  \/ get_catalog_returns
  \/ get_catalog_raises
  \/ \E s \in Slots :
       \/ /\ Registered("add_item_to_order")
          /\ CanDispatchConcurrently(s)
          /\ \E item_id \in ItemIdArgs, quantity \in QuantityValues :
               handle_add_item(s, item_id, quantity)
       \/ /\ Registered("remove_item_from_order")
          /\ CanDispatchConcurrently(s)
          /\ \E item_id \in ItemIdArgs, quantity \in QuantityValues :
               handle_remove_item(s, item_id, quantity)
       \/ /\ Registered("read_current_order")
          /\ CanDispatchConcurrently(s)
          /\ handle_read_order(s)
       \/ /\ Registered("calculate_order_total")
          /\ CanDispatchConcurrently(s)
          /\ handle_calculate_total(s)
       \/ /\ Registered("create_order")
          /\ CanDispatchConcurrently(s)
          /\ handle_create_order(s)
       \/ \E order_id \in OrderIds : create_order_returns(s, order_id)
       \/ create_order_raises(s)
       \/ result_callback_returns(s)
       \/ result_callback_raises(s)
       \/ result_callback_raises_in_try(s)

\* run_bot has been entered; no record of the finished calls is kept
InitConcurrent ==
  /\ order_items = << >>
  /\ calls = [s \in Slots |-> IdleCall]
  /\ last = NoHistory
  /\ submissions = 0
  /\ session = [phase |-> "starting", catalog_loaded |-> FALSE,
                has_cart |-> FALSE, tools |-> {}]

SpecConcurrent == InitConcurrent /\ [][NextConcurrent]_vars

(* ------------------- the cart used on its own -------------------------- *)
(* SessionState called directly, outside the tool handlers: any OrderItem  *)
(* the constructor accepts, any item_id and any quantity for remove_item.  *)

\* a method of SessionState called with the given arguments
MethodCall(method, item_id, quantity) ==
  [IdleCall EXCEPT !.tool = method, !.item_id = item_id,
                   !.quantity = quantity, !.pre = order_items]

\* the method's return value and the cart it leaves
MethodReturn(c, result, items) ==
  /\ last' = [call |-> c, post |-> items, outcome |-> "returned",
              result |-> result]
  /\ UNCHANGED session

\* a name and a price (in cents) no catalog entry has
OtherName == "Renamed"

OtherPrice == 100

\* an id the tool schema gives as an example and the catalog does not carry
ExtraItemId == "drink-001"

\* the OrderItems a caller may construct: quantity >= 1 (Field ge=1), any
\* name and any price >= 0 (the catalog's or others), a catalog id or
\* another one
OrderItems ==
  UNION {{OrderItem(catalog[m].id, quantity, catalog[m].name,
                    catalog[m].price),
          OrderItem(catalog[m].id, quantity, OtherName, OtherPrice)} :
         m \in DOMAIN catalog, quantity \in 1..MaxQuantity}
  \cup {OrderItem(ExtraItemId, quantity, OtherName, OtherPrice) :
          quantity \in 1..MaxQuantity}

\* session_state.add_item(item)
cart_add_item(item) ==
  LET k == IndexOf(order_items, item.item_id)
      items == add_item(order_items, item)
  IN  /\ item.quantity + (IF k = 0 THEN 0 ELSE order_items[k].quantity)
           <= MaxQuantity
      /\ order_items' = items
      /\ MethodReturn([MethodCall("SessionState.add_item", item.item_id,
                                  Some(item.quantity))
                         EXCEPT !.order_item = Some(item)],
                      [kind |-> "None"], items)
      /\ UNCHANGED <<calls, submissions>>

\* session_state.remove_item(item_id, quantity)
cart_remove_item(item_id, quantity) ==
  LET removed == remove_item(order_items, item_id, quantity)
  IN  /\ \A i \in DOMAIN removed.items :
           removed.items[i].quantity <= MaxQuantity
      /\ order_items' = removed.items
      /\ MethodReturn(MethodCall("SessionState.remove_item", item_id,
                                 quantity),
                      [kind |-> "bool", value |-> removed.found],
                      removed.items)
      /\ UNCHANGED <<calls, submissions>>

\* session_state.clear_order()
cart_clear_order ==
  /\ order_items' = clear_order(order_items)
  /\ MethodReturn(MethodCall("SessionState.clear_order", NoItemId, None),
                  [kind |-> "None"], clear_order(order_items))
  /\ UNCHANGED <<calls, submissions>>

\* a SessionState() constructed on its own: no bot, nothing registered
InitCart ==
  /\ order_items = << >>
  /\ calls = [s \in Slots |-> IdleCall]
  /\ last = [call |-> IdleCall, post |-> << >>, outcome |-> "none",
             result |-> NoResponse]
  /\ submissions = 0
  /\ session = [phase |-> "none", catalog_loaded |-> FALSE,
                has_cart |-> TRUE, tools |-> {}]

NextCart ==
  \/ \E item \in OrderItems : cart_add_item(item)
  \/ \E item_id \in CatalogIds \cup {ExtraItemId, UnknownItemId},
          quantity \in QuantityArgs :
       cart_remove_item(item_id, quantity)
  \/ cart_clear_order

SpecCart == InitCart /\ [][NextCart]_vars

(* ------------------------------ claims --------------------------------- *)

\* the last call was tool and it returned a string
Returned(tool) == last.outcome = "returned" /\ last.call.tool = tool

\* number of lines of items that carry item_id
LinesOf(items, item_id) ==
  Cardinality({i \in DOMAIN items : items[i].item_id = item_id})

\* quantity of the line of item_id in items, 0 when there is none
QuantityOf(items, item_id) ==
  IF IndexOf(items, item_id) = 0
  THEN 0
  ELSE items[IndexOf(items, item_id)].quantity

RECURSIVE SumOver(_, _)
\* the sum of price x quantity over the lines of items at the positions in S
SumOver(items, S) ==
  IF S = {}
  THEN 0
  ELSE LET i == CHOOSE j \in S : TRUE
       IN  items[i].price * items[i].quantity + SumOver(items, S \ {i})

\* the sum of price x quantity over all lines of items
LineSum(items) == SumOver(items, DOMAIN items)

\* C1: when create_order's submission of a non-empty cart raises and
\* create_order returns, the cart's lines (ids, quantities, names, prices,
\* order) and its total are those of the cart before the call.
C1_FailedSubmissionPreservesCart ==
  (Returned("create_order") /\ last.call.pre # << >>
   /\ last.call.api = "raised")
    => /\ last.post = last.call.pre
       /\ calculate_total(last.post) = calculate_total(last.call.pre)

\* C1 witness: create_order returned the apology after a failed submission
\* of a two-line cart
C1_Witness ==
  /\ Returned("create_order")
  /\ last.call.api = "raised"
  /\ last.call.submitted = 1
  /\ Len(last.call.pre) = 2
  /\ last.result = Apology

\* C2: when create_order's submission of a non-empty cart returns a success
\* response and create_order returns, the cart has no lines.
C2_SuccessfulSubmissionClearsCart ==
  (Returned("create_order") /\ last.call.pre # << >>
   /\ last.call.api = "returned")
    => last.post = << >>

\* C2 witness: create_order returned the confirmation for a two-line cart
C2_Witness ==
  /\ Returned("create_order")
  /\ last.call.api = "returned"
  /\ Len(last.call.pre) = 2
  /\ last.result.kind = "Order confirmed"

\* C3: create_order on an empty cart never reaches the order-submission
\* endpoint, returns the 'order is empty' message and leaves the cart empty.
C3_EmptyCartNotSubmitted ==
  /\ \A s \in Slots :
       calls[s].tool = "create_order" => calls[s].pre # << >>
  /\ (last.call.tool = "create_order" /\ last.call.pre = << >>)
       => /\ last.outcome = "returned"
          /\ last.call.submitted = 0
          /\ last.call.api = "none"
          /\ last.result = ErrOrderEmpty
          /\ last.post = << >>

\* C3 witness: create_order was called on an empty cart after an earlier
\* order had been submitted
C3_Witness ==
  /\ Returned("create_order")
  /\ last.call.pre = << >>
  /\ submissions > 0

\* C4: in every reachable state no two cart lines have the same item_id.
C4_ItemIdsUnique ==
  \A i, j \in DOMAIN order_items :
    i # j => order_items[i].item_id # order_items[j].item_id

\* C4 witness: an id that already had a line was added to a two-line cart
C4_Witness ==
  /\ Returned("add_item_to_order")
  /\ last.result.kind = "Added to your order"
  /\ IndexOf(last.call.pre, last.call.item_id) # 0
  /\ Len(last.call.pre) = 2
  /\ Len(order_items) = 2

\* C5: in every reachable state every cart line has quantity >= 1, whatever
\* integer quantities the calls carried; a removal of exactly the line's
\* quantity deletes the line.
C5_QuantitiesAtLeastOne ==
  /\ \A i \in DOMAIN order_items : order_items[i].quantity >= 1
  /\ \A s \in Slots : \A i \in DOMAIN calls[s].pre :
       calls[s].pre[i].quantity >= 1
  /\ (/\ Returned("remove_item_from_order")
      /\ last.call.quantity # None
      /\ IndexOf(last.call.pre, last.call.item_id) # 0
      /\ last.call.quantity[1]
           = QuantityOf(last.call.pre, last.call.item_id))
       => LinesOf(last.post, last.call.item_id) = 0

\* C5 witness: a removal of exactly the line's quantity, from a two-line cart
C5_Witness ==
  /\ Returned("remove_item_from_order")
  /\ last.call.quantity # None
  /\ Len(last.call.pre) = 2
  /\ IndexOf(last.call.pre, last.call.item_id) # 0
  /\ last.call.quantity[1] = QuantityOf(last.call.pre, last.call.item_id)
  /\ Len(last.post) = 1

\* C6: a successful add of q2 of item i to a cart that holds q1 of i (q1 = 0:
\* no line) leaves exactly one line for i, with quantity q1 + q2; so q1 and
\* then q2 added to a cart without i give one line with q1 + q2.
C6_AddMergesQuantities ==
  (Returned("add_item_to_order") /\ last.result.kind = "Added to your order")
    => /\ LinesOf(last.post, last.call.item_id) = 1
       /\ QuantityOf(last.post, last.call.item_id)
            = QuantityOf(last.call.pre, last.call.item_id)
              + last.result.quantity
       /\ last.result.quantity >= 1

\* C6 witness: q2 = 2 of an item was added to a cart holding q1 = 1 of it
C6_Witness ==
  /\ Returned("add_item_to_order")
  /\ last.result.kind = "Added to your order"
  /\ QuantityOf(last.call.pre, last.call.item_id) = 1
  /\ last.call.quantity = Some(2)
  /\ QuantityOf(order_items, last.call.item_id) = 3

\* the lines of items other than the one at position k, in order
Others(items, k) ==
  [i \in 1..(Len(items) - 1) |-> IF i < k THEN items[i] ELSE items[i + 1]]

\* C7: remove_item(item_id, q) on a line with quantity current keeps the line
\* with current - q when q < current, deletes it when q >= current or q is
\* omitted, and on an id without a line changes nothing and returns False.
C7_RemoveItem ==
  last.call.tool = "SessionState.remove_item"
    => LET pre == last.call.pre
           q == last.call.quantity
           k == IndexOf(pre, last.call.item_id)
       IN  IF k = 0
           THEN last.post = pre /\ last.result.value = FALSE
           ELSE IF q # None /\ q[1] < pre[k].quantity
           THEN /\ last.result.value = TRUE
                /\ Len(last.post) = Len(pre)
                /\ last.post[k].item_id = last.call.item_id
                /\ last.post[k].quantity = pre[k].quantity - q[1]
                /\ Others(last.post, k) = Others(pre, k)
           ELSE /\ last.result.value = TRUE
                /\ LinesOf(last.post, last.call.item_id) = 0
                /\ last.post = Others(pre, k)

\* C7 witness: a partial removal (1 of 3) from the first line of two
C7_Witness ==
  /\ last.call.tool = "SessionState.remove_item"
  /\ Len(last.call.pre) = 2
  /\ IndexOf(last.call.pre, last.call.item_id) = 1
  /\ last.call.quantity = Some(1)
  /\ last.call.pre[1].quantity = 3
  /\ last.post[1].quantity = 2

\* the result strings that report a cart total
ReportsTotal(result) ==
  result.kind \in {"Added to your order", "Removed all", "Removed",
                   "Here's your current order",
                   "Here's the breakdown of your order"}

\* C8: total() is the sum of price x quantity over the cart's lines, and the
\* total reported by add_item_to_order, remove_item_from_order,
\* read_current_order and calculate_order_total is that sum for the cart as
\* it is when the call returns.
C8_TotalIsLineSum ==
  /\ calculate_total(order_items) = LineSum(order_items)
  /\ (last.outcome = "returned" /\ ReportsTotal(last.result))
       => /\ last.call.tool \in {"add_item_to_order", "remove_item_from_order",
                                 "read_current_order", "calculate_order_total"}
          /\ last.result.total = Money(LineSum(last.post))

\* C8 witness: a partial removal from a two-line cart reported 3 x 599 + 249
C8_Witness ==
  /\ Returned("remove_item_from_order")
  /\ last.result.kind = "Removed"
  /\ Len(last.post) = 2
  /\ last.result.total = [dollars |-> 20, cents |-> 46]

\* C9: on a successful create_order the total in the endpoint's response and
\* in the confirmation is the cart's total() just before the submission.
C9_ConfirmedTotalIsCartTotal ==
  (Returned("create_order") /\ last.result.kind = "Order confirmed")
    => /\ last.call.order_response.total = calculate_total(last.call.pre)
       /\ last.result.total = Money(calculate_total(last.call.pre))

\* C9 witness: a confirmed order of 2 burgers and 1 side, total 14.47
C9_Witness ==
  /\ Returned("create_order")
  /\ last.result.kind = "Order confirmed"
  /\ Len(last.call.pre) = 2
  /\ last.call.pre[1].quantity = 2
  /\ last.result.total = [dollars |-> 14, cents |-> 47]

\* C10: every tool handler, on every outcome, pushes its result string
\* through the result callback, and the pushed string is the returned one.
C10_EveryResultPushed ==
  last.outcome = "returned"
    => /\ last.call.pushed # << >>
       /\ last.call.pushed[Len(last.call.pushed)] = last.result

\* a create_order call on a non-empty cart starts in slot s in this step
CreateOrderStarts(s) ==
  /\ calls[s].pc = "idle"
  /\ calls'[s].tool = "create_order"
  /\ calls'[s].pre # << >>

\* C11: a create_order call on a non-empty cart submits to the endpoint
\* exactly once, whether the submission succeeds or fails: the count of
\* submissions goes up by one exactly in the steps in which such a call
\* starts, and a call that has ended made one submission.
C11_OneSubmissionPerCreateOrder ==
  /\ [](\A s \in Slots :
          (calls[s].tool = "create_order" /\ calls[s].pre # << >>)
            => calls[s].submitted = 1)
  /\ []((last.call.tool = "create_order" /\ last.call.pre # << >>)
          => last.call.submitted = 1)
  /\ [][/\ (submissions' # submissions)
             => /\ submissions' = submissions + 1
                /\ \E s \in Slots : CreateOrderStarts(s)
        /\ (\E s \in Slots : CreateOrderStarts(s))
             => submissions' = submissions + 1]_vars

\* C11 witness: two create_order calls were made on a non-empty cart, the
\* second one failed, and two submissions were made in all
C11_Witness ==
  /\ Returned("create_order")
  /\ last.call.api = "raised"
  /\ last.call.submitted = 1
  /\ submissions = 2

\* C12: the payload create_order submits has one {item_id, quantity} entry
\* per line of the cart at the time of the call, in the cart's order.
C12_PayloadMirrorsCart ==
  \A c \in {calls[s] : s \in Slots} \cup {last.call} :
    (c.tool = "create_order" /\ c.submitted > 0)
      => /\ Len(c.api_items) = Len(c.pre)
         /\ \A i \in DOMAIN c.pre :
              /\ DOMAIN c.api_items[i] = {"item_id", "quantity"}
              /\ c.api_items[i].item_id = c.pre[i].item_id
              /\ c.api_items[i].quantity = c.pre[i].quantity

\* C12 witness: a submission in flight for a cart whose first line is the
\* side and whose second line is 2 burgers
C12_Witness ==
  \E s \in Slots :
    /\ calls[s].pc = "await_create_order"
    /\ Len(calls[s].pre) = 2
    /\ calls[s].pre[1].item_id = "side-001"
    /\ calls[s].api_items[2] = [item_id |-> "burger-001", quantity |-> 2]

\* the error texts of add_item_to_order
AddErrors ==
  {"Error: item_id is required", "Error: quantity must be at least 1",
   "Error: Item not found in menu"}

\* C13: add_item_to_order with an integer quantity < 1, without item_id, or
\* with an item_id the catalog does not have (quantity an integer or
\* omitted) returns an error text and leaves the cart as it was.
C13_AddRejected ==
  (/\ last.call.tool = "add_item_to_order"
   /\ \/ last.call.item_id = NoItemId
      \/ /\ last.call.quantity # None
         /\ IsInteger(last.call.quantity)
         /\ last.call.quantity[1] < 1
      \/ /\ last.call.quantity = None \/ IsInteger(last.call.quantity)
         /\ last.call.item_id \notin CatalogIds)
    => /\ last.outcome = "returned"
       /\ last.result.kind \in AddErrors
       /\ last.post = last.call.pre

\* C13 witness: an id the catalog does not have was added to a two-line cart
C13_Witness ==
  /\ Returned("add_item_to_order")
  /\ last.call.item_id = UnknownItemId
  /\ last.call.quantity = Some(1)
  /\ Len(last.call.pre) = 2
  /\ last.result = ErrNotInMenu(UnknownItemId)

\* the error texts of remove_item_from_order
RemoveErrors ==
  {"Error: item_id is required", "Error: Item not found in your order",
   "Error: quantity to remove must be at least 1"}

\* C14: remove_item_from_order with a given integer quantity < 1, or with an
\* item_id that has no line in the cart, returns an error text and leaves
\* the cart as it was.
C14_RemoveRejected ==
  (/\ last.call.tool = "remove_item_from_order"
   /\ \/ /\ last.call.quantity # None
         /\ IsInteger(last.call.quantity)
         /\ last.call.quantity[1] < 1
      \/ IndexOf(last.call.pre, last.call.item_id) = 0)
    => /\ last.outcome = "returned"
       /\ last.result.kind \in RemoveErrors
       /\ last.post = last.call.pre

\* C14 witness: quantity 0 of an item that has a line in a two-line cart
C14_Witness ==
  /\ Returned("remove_item_from_order")
  /\ last.call.quantity = Some(0)
  /\ IndexOf(last.call.pre, last.call.item_id) # 0
  /\ Len(last.call.pre) = 2
  /\ last.result = ErrRemoveQuantity

\* this step is add_item_to_order merging or appending a line
SuccessfulAddStep ==
  \E s \in Slots :
    /\ calls[s].pc = "idle"
    /\ calls'[s].tool = "add_item_to_order"
    /\ calls'[s].response.kind = "Added to your order"

\* this step is remove_item_from_order taking part of a line's quantity
PartialRemoveStep ==
  \E s \in Slots :
    /\ calls[s].pc = "idle"
    /\ calls'[s].tool = "remove_item_from_order"
    /\ calls'[s].response.kind = "Removed"

\* this step is remove_item_from_order deleting the cart's last line
LastLineRemovedStep ==
  /\ last' # last
  /\ last'.call.tool = "remove_item_from_order"
  /\ last'.result.kind = "Removed all, order is now empty"

\* this step is create_order resuming after a successful submission
CreateOrderSucceedsStep ==
  \E s \in Slots :
    /\ calls[s].pc = "await_create_order"
    /\ calls'[s].api = "returned"

\* this step is create_order called on an empty cart
CreateOrderOnEmptyStep ==
  /\ last' # last
  /\ last'.call.tool = "create_order"
  /\ last'.call.pre = << >>

\* C15: under sequential dispatch the cart becomes non-empty only by a
\* successful add, stays non-empty on adds and partial removes, becomes empty
\* only by a remove of its last line or a successful create_order, and
\* create_order on an empty cart changes nothing.
C15_CartLifecycle ==
  [][/\ (order_items = << >> /\ order_items' # << >>) => SuccessfulAddStep
     /\ SuccessfulAddStep => order_items' # << >>
     /\ PartialRemoveStep => (order_items # << >> /\ order_items' # << >>)
     /\ (order_items # << >> /\ order_items' = << >>)
          => (LastLineRemovedStep \/ CreateOrderSucceedsStep)
     /\ CreateOrderSucceedsStep => (order_items # << >> /\ order_items' = << >>)
     /\ LastLineRemovedStep => (order_items # << >> /\ order_items' = << >>)
     /\ CreateOrderOnEmptyStep
          => /\ order_items = << >>
             /\ UNCHANGED <<order_items, submissions, calls>>]_vars

\* C15 witness: the cart went back to empty by a remove of its last line
\* after an earlier order had emptied it by a successful create_order
C15_Witness ==
  /\ Returned("remove_item_from_order")
  /\ last.result.kind = "Removed all, order is now empty"
  /\ order_items = << >>
  /\ submissions > 0

\* C16: every tool call, whatever its arguments and whatever the endpoint
\* and the callback do, ends by returning one string and lets no exception
\* out; a failed submission ends with create_order returning the apology.
C16_EveryCallReturnsAString ==
  last.outcome # "none"
    => /\ last.outcome = "returned"
       /\ last.result # NoResponse
       /\ (last.call.tool = "create_order" /\ last.call.api = "raised")
            => last.result = Apology

\* the tools that only read the cart
ReadOnlyTools == {"read_current_order", "calculate_order_total"}

\* C17: read_current_order and calculate_order_total leave the cart as it
\* was, empty or not, and make no call to the order-submission endpoint.
C17_ReadAndTotalChangeNothing ==
  /\ [](\A s \in Slots :
          calls[s].tool \in ReadOnlyTools
            => /\ order_items = calls[s].pre
               /\ calls[s].submitted = 0
               /\ calls[s].api = "none")
  /\ [](last.call.tool \in ReadOnlyTools
          => /\ last.post = last.call.pre
             /\ last.call.submitted = 0
             /\ last.call.api = "none")
  /\ [][((\E s \in Slots : calls'[s].tool \in ReadOnlyTools
                             \/ calls[s].tool \in ReadOnlyTools)
         \/ (last' # last /\ last'.call.tool \in ReadOnlyTools))
          => UNCHANGED <<order_items, submissions>>]_vars

\* C17 witness: calculate_order_total returned the breakdown of a two-line
\* cart
C17_Witness ==
  /\ Returned("calculate_order_total")
  /\ Len(last.call.pre) = 2
  /\ last.result.kind = "Here's the breakdown of your order"
  /\ order_items = last.call.pre

\* C18: when the catalog fetch at session start fails, run_bot ends with the
\* exception: as long as no catalog has been loaded there is no cart, no
\* registered tool, no tool call and no order submission, and a session that
\* was aborted stays aborted.
C18_CatalogFailureAbortsSession ==
  /\ [](~session.catalog_loaded
          => /\ ~session.has_cart
             /\ session.tools = {}
             /\ \A s \in Slots : calls[s].pc = "idle"
             /\ last.outcome = "none"
             /\ submissions = 0
             /\ order_items = << >>)
  /\ [][session.phase = "aborted" => session'.phase = "aborted"]_vars
  /\ [][(session.phase = "starting" /\ ~session'.catalog_loaded)
          => session'.phase \in {"starting", "aborted"}]_vars

\* C18 witness: the catalog fetch failed
C18_Witness ==
  /\ session.phase = "aborted"
  /\ ~session.catalog_loaded

\* the item ids and quantities of the lines of items, in order
IdsAndQuantities(items) ==
  [i \in DOMAIN items |-> <<items[i].item_id, items[i].quantity>>]

\* the last call was tool(item_id, quantity), on a cart with the given ids
\* and quantities, and it returned
Step(tool, item_id, quantity, cart) ==
  /\ Returned(tool)
  /\ last.call.item_id = item_id
  /\ last.call.quantity = quantity
  /\ IdsAndQuantities(last.call.pre) = cart

\* C19: the example run, with burger-001 at 5.99 and side-001 at 2.49:
\* add(burger-001, 2) gives [{burger-001, 2}] and 11.98; add(burger-001, 1)
\* gives [{burger-001, 3}] and 17.97; remove(burger-001, 1) gives
\* [{burger-001, 2}] and 11.98; add(side-001, 1) gives [{burger-001, 2},
\* {side-001, 1}] and 14.47; a successful create_order reports 14.47 and
\* empties the cart; create_order on the empty cart returns the empty-order
\* message without a submission.
C19_ExampleRun ==
  /\ Step("add_item_to_order", "burger-001", Some(2), << >>)
       => /\ IdsAndQuantities(last.post) = << <<"burger-001", 2>> >>
          /\ last.result.total = [dollars |-> 11, cents |-> 98]
  /\ Step("add_item_to_order", "burger-001", Some(1),
          << <<"burger-001", 2>> >>)
       => /\ IdsAndQuantities(last.post) = << <<"burger-001", 3>> >>
          /\ last.result.total = [dollars |-> 17, cents |-> 97]
  /\ Step("remove_item_from_order", "burger-001", Some(1),
          << <<"burger-001", 3>> >>)
       => /\ IdsAndQuantities(last.post) = << <<"burger-001", 2>> >>
          /\ last.result.total = [dollars |-> 11, cents |-> 98]
  /\ Step("add_item_to_order", "side-001", Some(1),
          << <<"burger-001", 2>> >>)
       => /\ IdsAndQuantities(last.post)
               = << <<"burger-001", 2>>, <<"side-001", 1>> >>
          /\ last.result.total = [dollars |-> 14, cents |-> 47]
  /\ (Step("create_order", NoItemId, None,
           << <<"burger-001", 2>>, <<"side-001", 1>> >>)
      /\ last.call.api = "returned")
       => /\ last.call.order_response.total = 1447
          /\ last.result.kind = "Order confirmed"
               => last.result.total = [dollars |-> 14, cents |-> 47]
          /\ last.post = << >>
  /\ Step("create_order", NoItemId, None, << >>)
       => /\ last.result = ErrOrderEmpty
          /\ last.call.submitted = 0
          /\ last.post = << >>

\* C19 witness: step 4 of the run: the side added to a cart of 2 burgers
C19_Witness ==
  /\ Step("add_item_to_order", "side-001", Some(1), << <<"burger-001", 2>> >>)
  /\ last.result.total = [dollars |-> 14, cents |-> 47]
  /\ order_items = last.post
  /\ submissions = 0

\* C20: add_item of an id that has a line changes that line's quantity only:
\* the line keeps its name and price, the name and price of the item passed
\* in are dropped, and the other lines stay as they were.
C20_AddKeepsSnapshot ==
  (last.call.tool = "SessionState.add_item"
   /\ IndexOf(last.call.pre, last.call.item_id) # 0)
    => LET pre == last.call.pre
           k == IndexOf(pre, last.call.item_id)
       IN  /\ Len(last.post) = Len(pre)
           /\ last.post[k].item_id = pre[k].item_id
           /\ last.post[k].name = pre[k].name
           /\ last.post[k].price = pre[k].price
           /\ last.post[k].quantity
                = pre[k].quantity + last.call.order_item[1].quantity
           /\ \A i \in DOMAIN pre : i # k => last.post[i] = pre[i]

\* C20 witness: an item with another name and another price was added to
\* the second line of a two-line cart
C20_Witness ==
  /\ last.call.tool = "SessionState.add_item"
  /\ Len(last.call.pre) = 2
  /\ IndexOf(last.call.pre, last.call.item_id) = 2
  /\ last.call.order_item[1].name # last.call.pre[2].name
  /\ last.call.order_item[1].price # last.call.pre[2].price
  /\ last.post[2].quantity = 3

\* the item ids of items, in the order of its lines
Ids(items) == [i \in DOMAIN items |-> items[i].item_id]

\* C21: the cart keeps lines in first-insertion order: add_item of a new id
\* appends its line at the end, add_item of an id that has a line and a
\* partial remove_item leave every line at its position, and a full
\* remove_item deletes that line only and keeps the others in their order.
C21_InsertionOrderKept ==
  LET pre == last.call.pre
      k == IndexOf(pre, last.call.item_id)
      quantity == last.call.quantity
  IN  /\ (last.call.tool = "SessionState.add_item" /\ k = 0)
           => /\ Len(last.post) = Len(pre) + 1
              /\ SubSeq(last.post, 1, Len(pre)) = pre
              /\ last.post[Len(last.post)].item_id = last.call.item_id
      /\ (last.call.tool = "SessionState.add_item" /\ k # 0)
           => Ids(last.post) = Ids(pre)
      /\ (last.call.tool = "SessionState.remove_item" /\ k # 0)
           => IF quantity = None \/ quantity[1] >= pre[k].quantity
              THEN /\ Len(last.post) = Len(pre) - 1
                   /\ \A i \in 1..(k - 1) : last.post[i] = pre[i]
                   /\ \A i \in k..(Len(pre) - 1) : last.post[i] = pre[i + 1]
              ELSE Ids(last.post) = Ids(pre)

\* C21 witness: the first line of a three-line cart was removed in full and
\* the two lines behind it moved up in their order
C21_Witness ==
  /\ last.call.tool = "SessionState.remove_item"
  /\ Len(last.call.pre) = 3
  /\ IndexOf(last.call.pre, last.call.item_id) = 1
  /\ Len(last.post) = 2
  /\ last.post[1] = last.call.pre[2]
  /\ last.post[2] = last.call.pre[3]

\* C22: when the tool calls of one session run concurrently and interleave
\* at their awaits (the order submission, the result callback), in every
\* reachable state no two cart lines share an item_id and every cart line
\* has quantity >= 1, with no lock.
C22_ConcurrentCallsKeepCartInvariants ==
  /\ \A i \in DOMAIN order_items :
       /\ order_items[i].quantity >= 1
       /\ LinesOf(order_items, order_items[i].item_id) = 1
  /\ \A s \in Slots :
       calls[s].pc \in {"await_callback", "await_create_order",
                        "await_callback_in_try"}
         => \A i \in DOMAIN calls[s].pre :
              /\ calls[s].pre[i].quantity >= 1
              /\ LinesOf(calls[s].pre, calls[s].pre[i].item_id) = 1

\* C22 witness: an add of an id ran while another add of the same id was
\* suspended at its callback; both are suspended and the cart holds one line
\* of the id, with the two quantities added up
C22_Witness ==
  \E s, t \in Slots :
    /\ s # t
    /\ calls[s].tool = "add_item_to_order"
    /\ calls[s].pc = "await_callback"
    /\ calls[t].tool = "add_item_to_order"
    /\ calls[t].pc = "await_callback"
    /\ calls[t].item_id = calls[s].item_id
    /\ QuantityOf(calls[s].pre, calls[s].item_id) = 0
    /\ QuantityOf(calls[t].pre, calls[s].item_id) = calls[s].order_item[1].quantity
    /\ LinesOf(order_items, calls[s].item_id) = 1
    /\ QuantityOf(order_items, calls[s].item_id)
         = calls[s].order_item[1].quantity + calls[t].order_item[1].quantity

\* C23: when create_order's submission succeeds, the lines the clear
\* discards are exactly the lines (item_id, quantity) of the submitted
\* payload, also when another tool call ran while the submission was in
\* flight: no line leaves the cart without having been submitted.
C23_ClearedLinesWereSubmitted ==
  [][\A s \in Slots :
       (/\ calls[s].pc = "await_create_order"
        /\ calls'[s].api = "returned"
        /\ order_items' = << >>)
         => /\ Len(order_items) = Len(calls[s].api_items)
            /\ \A i \in DOMAIN order_items :
                 /\ i \in DOMAIN calls[s].api_items
                 /\ calls[s].api_items[i].item_id = order_items[i].item_id
                 /\ calls[s].api_items[i].quantity
                      = order_items[i].quantity]_vars

\* C24: whenever create_order returns the apology that says the items are
\* still in the cart, the cart is the cart as it was before the call,
\* whatever fault the handler caught, a fault of the result callback after
\* a successful submission included.
C24_ApologyMeansCartUntouched ==
  (Returned("create_order") /\ last.result = Apology)
    => last.post = last.call.pre

\* C25: a call of remove_item_from_order, with any item_id and any integer
\* quantity (0 and negative ones included) or none, adds no line, increases
\* no line's quantity and does not increase the cart total.
C25_RemoveNeverIncreases ==
  (/\ last.call.tool = "remove_item_from_order"
   /\ (last.call.quantity = None \/ IsInteger(last.call.quantity)))
    => /\ Len(last.post) <= Len(last.call.pre)
       /\ \A i \in DOMAIN last.post :
            /\ IndexOf(last.call.pre, last.post[i].item_id) # 0
            /\ last.post[i].quantity
                 <= QuantityOf(last.call.pre, last.post[i].item_id)
       /\ LineSum(last.post) <= LineSum(last.call.pre)

\* C25 witness: a removal with quantity -1 of an item that has a line, in a
\* two-line cart, was rejected and left the cart as it was
C25_Witness ==
  /\ Returned("remove_item_from_order")
  /\ last.call.quantity = Some(-1)
  /\ Len(last.call.pre) = 2
  /\ IndexOf(last.call.pre, last.call.item_id) # 0
  /\ last.result = ErrRemoveQuantity
  /\ last.post = last.call.pre

====
